---- MODULE Spec2Model ----
(***************************************************************************)
(* eSocial proxy: the mTLS SOAP relay POST /api/esocial of src/index.js    *)
(* (rateLimit middleware, request handler, makeHttpsRequest,                *)
(* buildSoapEnvelope, getCurrentPeriod) as a state machine.                 *)
(* With it the scraping endpoint POST /api/esocial-irrf and                 *)
(* ESocialIRRFScraper.processMultiple of src/scraper/irrf-scraper.js; the   *)
(* browser is the environment: each operation on it succeeds or throws.     *)
(*                                                                         *)
(* Conventions.                                                            *)
(*  - A JSON field of the request body is Absent (undefined) or Str(s).    *)
(*    Request fields are strings, as in the data model of the relay        *)
(*    request; a string that the code inspects character by character      *)
(*    (nrInsc, the response data) is a sequence of one-character strings,  *)
(*    every other string is a TLA+ string.                                 *)
(*  - Time is the millisecond clock `now` (Date.now()).  Timers fire when   *)
(*    due: the clock never passes the deadline of an armed socket timer.   *)
(*  - Node runs the synchronous part of a handler, and the continuation    *)
(*    of an `await` right after the event that settles the promise,        *)
(*    without interleaving: each is one action.  Inbound calls are taken   *)
(*    one after the other; the state they share is requestCounts.          *)
(***************************************************************************)
EXTENDS Integers, Sequences, FiniteSets, TLC

VARIABLES
  now,            \* Date.now(), ms
  requestCounts,  \* Map ip -> array of admission timestamps (index.js:319)
  admitted,       \* history: ip -> times of all the requests of the address that
                  \*   rateLimit passed on with next() (index.js:343)
  callNo,         \* number of inbound calls received so far
  pc,             \* "idle" | "awaiting" (await makeHttpsRequest) | "responded"
  body,           \* req.body of the call being handled
  startTime,      \* const startTime = Date.now() (index.js:461)
  outbound,       \* options of every https.request issued for this call
  reqState,       \* ClientRequest/socket: "none" | "connecting" | "sent" |
                  \*   "receiving" | "ended" | "errored" | "destroyed" | "aborted"
  statusCode,     \* res.statusCode (0 before the response callback)
  data,           \* let data = '' (index.js:567)
  chunks,         \* the chunks the remote delivered, in order
  lastActivity,   \* time of the last socket activity (the idle timer's origin)
  hangup,         \* an 'error' (socket hang up) is queued behind req.destroy()
  promise,        \* the promise of makeHttpsRequest
  responses,      \* HTTP responses sent for this call (res.json)
  log,            \* console lines written for this call
  tzOffset,       \* the host's local-time offset from UTC, ms (TZ of the process)
  irrfPc,         \* POST /api/esocial-irrf: "idle" | "init" | "login" | "navigate" |
                  \*   "consultar" | "voltar" | "close" | "closeAfterError" | "responded"
  irrfBody,       \* req.body of the scraping call
  irrfStartTime,  \* const startTime = Date.now() (index.js:369)
  scrapers,       \* number of ESocialIRRFScraper objects constructed for the call
  browser,        \* this.browser: "none" | "open" | "closed"
  loginDone,      \* let loginDone (irrf-scraper.js:1046)
  onIrrfPage,     \* navigateToIRRF() has returned
  pIdx,           \* position of the outer loop in periodos
  cIdx,           \* position of the inner loop in cpfs
  results,        \* const results = [] (irrf-scraper.js:1045)
  thrown,         \* the error travelling to the handler's catch, "none" if none
  faults,         \* number of browser operations that have thrown in the call
  irrfResponses,  \* HTTP responses sent for the scraping call
  tmpFiles,       \* the files and directories in os.tmpdir()
  temp,           \* per scraper object: tempCertPath, tempNssDb, tempUserDataDir
  phase,          \* per scraper object: "none" | "new" | "live" | "waiting" | "closed"
  fetched         \* per scraper object: whose download its last downloadXML read

relayVars == <<now, requestCounts, admitted, callNo, pc, body, startTime, outbound, reqState,
               statusCode, data, chunks, lastActivity, hangup, promise, responses, log,
               tzOffset>>

scraperVars == <<irrfPc, irrfBody, irrfStartTime, scrapers, browser, loginDone,
                 onIrrfPage, pIdx, cIdx, results, thrown, faults, irrfResponses>>

fileVars == <<tmpFiles, temp, phase, fetched>>

vars == <<relayVars, scraperVars, fileVars>>

callVars == <<body, startTime, outbound, reqState, statusCode, data, chunks,
              lastActivity, hangup, promise, responses, log>>

-----------------------------------------------------------------------------
(* Bounds of the model *)

MaxCalls == 1
MaxChunks == 2
MaxCpfs == 2
MaxFaults == 2
MaxInstances == 2
MaxNrLen == 9
MaxPeriodos == 2
MaxTicks == 3
TickMs == 15000
\* The clock starts MsToMonthEnd ms before a UTC month boundary
MsToMonthEnd == 20000

(* Program constants *)

RATE_LIMIT == 100
RATE_WINDOW == 60000
TIMEOUT_MS == 30000
ERROR_BODY_LIMIT == 500
NRINSC_LEN == 8
HTTPS_PORT == 443

-----------------------------------------------------------------------------
(* JSON values of the request body *)

Absent == [def |-> FALSE]
Str(s) == [def |-> TRUE, v |-> s]

\* JavaScript truthiness of a string-or-undefined value: !x is true for
\* undefined and for the empty string.
Truthy(x) == x.def /\ x.v # ""

\* The same for a string held as a sequence of characters
TruthyChars(x) == x.def /\ Len(x.v) > 0

\* The text of a value in a template string or as an option: `${undefined}`
Val(x) == IF x.def THEN x.v ELSE "undefined"

\* a || dflt
OrElse(x, dflt) == IF Truthy(x) THEN x.v ELSE dflt

\* A JSON array
Arr(items) == [def |-> TRUE, arr |-> items]

\* Array.isArray(x)
IsArray(x) == "arr" \in DOMAIN x

\* !x is false for every array, the empty one included
TruthyValue(x) == IF IsArray(x) THEN TRUE ELSE Truthy(x)

Min(a, b) == IF a <= b THEN a ELSE b

\* String.prototype.substring(0, n) on a sequence of characters
Substring0(s, n) == SubSeq(s, 1, Min(n, Len(s)))

Digits == {"0", "1", "2", "3", "4", "5", "6", "7", "8", "9"}

\* s.replace(/\D/g, '')
RECURSIVE StripNonDigits(_)
StripNonDigits(s) ==
  IF s = <<>> THEN <<>>
  ELSE IF Head(s) \in Digits THEN <<Head(s)>> \o StripNonDigits(Tail(s))
       ELSE StripNonDigits(Tail(s))

RECURSIVE Flatten(_)
Flatten(ss) == IF ss = <<>> THEN <<>> ELSE Head(ss) \o Flatten(Tail(ss))

Repeat(c, n) == [i \in 1..n |-> c]

-----------------------------------------------------------------------------
(* Inputs *)

IPs == {"10.0.0.1", "10.0.0.2"}

CNPJ == <<"1","2",".","3","4","5",".","6","7","8","/","0","0","0","1","-","9","9">>

KeyValues == {Absent, Str(""), Str("KEY")}
CertValues == {Absent, Str("CERT")}
AmbienteValues == {Absent, Str("producao"), Str("producao-restrita"), Str("homologacao")}
TpInscValues == {Absent, Str("1")}
NrInscValues == {Absent, Str(<<>>), Str(CNPJ)}
ActionValues == {Absent, Str("download"), Str("consultar"), Str("enviar")}
PerApurValues == {Absent, Str("2024-11")}
TpEventoValues == {Absent, Str("S-1200")}

\* Bodies that exercise the payload checks: the optional fields are left out.
ValidationBodies ==
  [privateKeyPem : KeyValues, certificatePem : CertValues,
   ambiente : AmbienteValues, tpInsc : TpInscValues, nrInsc : NrInscValues,
   action : {Absent}, perApur : {Absent}, tpEvento : {Absent}]

\* Bodies that pass the payload checks: each environment and action, the
\* period and event type both given or both left to their defaults.
RelayBodies ==
  {b \in [privateKeyPem : {Str("KEY")}, certificatePem : {Str("CERT")},
          ambiente : {Str("producao"), Str("producao-restrita")}, tpInsc : {Str("1")},
          nrInsc : {Str(CNPJ)},
          action : ActionValues, perApur : PerApurValues, tpEvento : TpEventoValues] :
     b.perApur.def = b.tpEvento.def}

Bodies == ValidationBodies \cup RelayBodies

\* The body of the transport specification
DownloadBody ==
  [privateKeyPem |-> Str("KEY"), certificatePem |-> Str("CERT"),
   ambiente |-> Str("producao"), tpInsc |-> Str("1"), nrInsc |-> Str(CNPJ),
   action |-> Absent, perApur |-> Str("2024-11"), tpEvento |-> Absent]

NoBody ==
  [privateKeyPem |-> Absent, certificatePem |-> Absent, ambiente |-> Absent,
   tpInsc |-> Absent, nrInsc |-> Absent, action |-> Absent, perApur |-> Absent,
   tpEvento |-> Absent]

\* Taxpayer numbers as typed: every string of at most MaxNrLen characters
\* over two digits and a separator, and the formatted CNPJ.
NrAlphabet == {"1", "2", "."}
NrStrings == UNION {[1..n -> NrAlphabet] : n \in 0..MaxNrLen}

\* Valid calls that differ in the taxpayer number only
NrBodies ==
  [privateKeyPem : {Str("KEY")}, certificatePem : {Str("CERT")},
   ambiente : {Str("producao")}, tpInsc : {Str("1")},
   nrInsc : {Str(n) : n \in NrStrings \cup {CNPJ}},
   action : {Absent}, perApur : {Str("2024-11")}, tpEvento : {Absent}]

\* Valid calls over every combination of the fields the envelope may use
FieldBodies ==
  [privateKeyPem : {Str("KEY")}, certificatePem : {Str("CERT")},
   ambiente : {Str("producao"), Str("producao-restrita")},
   tpInsc : {Str("1"), Str("2")},
   nrInsc : {Str(CNPJ), Str(<<"4", "2">>)},
   action : {Absent, Str("download"), Str("consultar")},
   perApur : {Absent, Str("2024-11"), Str("2023-01")},
   tpEvento : {Absent, Str("S-1200")}]

EnvelopeBodies == NrBodies \cup FieldBodies

\* Valid calls with and without a period
PeriodBodies ==
  [privateKeyPem : {Str("KEY")}, certificatePem : {Str("CERT")},
   ambiente : {Str("producao")}, tpInsc : {Str("1")}, nrInsc : {Str(CNPJ)},
   action : {Absent, Str("consultar")}, perApur : {Absent, Str(""), Str("2024-11")},
   tpEvento : {Absent}]

\* The scraping call: its lists are the first CPFs and periods of two fixed
\* lists, or are missing, or are a string where an array is expected.
AllCpfs == <<"111.111.111-11", "22222222222", "333.333.333-33", "44444444444">>
AllPeriodos == <<"2024-11", "2024-12", "2025-01", "2025-02">>

CpfsValues ==
  {Absent, Str("11111111111")}
    \cup {Arr(SubSeq(AllCpfs, 1, n)) : n \in 0..Min(MaxCpfs, Len(AllCpfs))}
PeriodosValues ==
  {Absent, Str("2024-11")}
    \cup {Arr(SubSeq(AllPeriodos, 1, n)) : n \in 0..Min(MaxPeriodos, Len(AllPeriodos))}

IrrfBodies ==
  [certificatePfx : {Absent, Str("PFX")}, password : {Absent, Str(""), Str("secret")},
   cpfs : CpfsValues, periodos : PeriodosValues]

NoIrrfBody ==
  [certificatePfx |-> Absent, password |-> Absent, cpfs |-> Absent, periodos |-> Absent]

\* What the remote may send
StatusCodes == {200, 299, 300, 503}
ChunkValues == {Repeat("a", 300), Repeat("b", 1000)}
\* ... in the specification that varies the request instead
FewStatusCodes == {200, 503}
FewChunkValues == {Repeat("a", 300)}
FewTransportErrors == {"ECONNRESET"}
TransportErrors == {"ECONNRESET", "unable to verify the first certificate"}

-----------------------------------------------------------------------------
(* The constant endpoint table *)

ESOCIAL_URLS ==
  [a \in {"producao", "producao-restrita"} |->
     [hostname |-> IF a = "producao" THEN "webservices.esocial.gov.br"
                   ELSE "webservices.producaorestrita.esocial.gov.br",
      consulta |-> "/servicos/empregador/consultarloteeventos/WsConsultarLoteEventos.svc",
      download |-> "/servicos/empregador/download/WsDownload.svc"]]

SOAPACTION_CONSULTA ==
  "http://www.esocial.gov.br/servicos/empregador/consulta/retornoProcessamento/v1_0_0/ServicoConsultarLoteEventos/ConsultarLoteEventos"
SOAPACTION_DOWNLOAD ==
  "http://www.esocial.gov.br/servicos/empregador/download/v1_0_0/ServicoDownload/Download"

-----------------------------------------------------------------------------
(* Messages.  The accented letters of the source's Portuguese messages are  *)
(* written without accents.                                                 *)

MissingCredentials == "Certificado digital (privateKeyPem e certificatePem) e obrigatorio"
InvalidEnvironment == "Ambiente invalido. Use: producao ou producao-restrita"
MissingTaxpayerIdentifiers == "tpInsc e nrInsc sao obrigatorios"
RateLimitExceeded == "Rate limit exceeded. Tente novamente em 1 minuto."

\* The remote-status error carrying the whole body.
RemoteErrorWholeBody(status, d) ==
  [prefix |-> "eSocial retornou status ", status |-> status, text |-> d]

\* new Error(`eSocial retornou status ${res.statusCode}: ${data.substring(0, 500)}`)
RemoteError(status, d) ==
  [prefix |-> "eSocial retornou status ", status |-> status,
   text |-> Substring0(d, ERROR_BODY_LIMIT)]

\* new Error(`Erro de conexao com eSocial: ${error.message}`)
ConnectionError(msg) == [prefix |-> "Erro de conexao com eSocial: ", text |-> msg]

\* new Error('Timeout na conexao com eSocial (30s)')
Timeout == [prefix |-> "Timeout na conexao com eSocial (30s)"]

MissingPfxOrPassword == "Certificado digital (certificatePfx) e senha sao obrigatorios"
MissingCpfs == "Lista de CPFs e obrigatoria"
MissingPeriodos == "Lista de periodos e obrigatoria"

-----------------------------------------------------------------------------
(* Pure functions of the handler *)

\* Validate with the credentials check passing when either one is given.
ValidateEitherCredential(b) ==
  IF ~Truthy(b.privateKeyPem) /\ ~Truthy(b.certificatePem) THEN MissingCredentials
  ELSE IF ~Truthy(b.ambiente) \/ b.ambiente.v \notin {"producao", "producao-restrita"}
    THEN InvalidEnvironment
  ELSE IF ~Truthy(b.tpInsc) \/ ~TruthyChars(b.nrInsc) THEN MissingTaxpayerIdentifiers
  ELSE "ok"

\* Validate with the environment only required to be present.
ValidateAnyEnvironment(b) ==
  IF ~Truthy(b.privateKeyPem) \/ ~Truthy(b.certificatePem) THEN MissingCredentials
  ELSE IF ~Truthy(b.ambiente) THEN InvalidEnvironment
  ELSE IF ~Truthy(b.tpInsc) \/ ~TruthyChars(b.nrInsc) THEN MissingTaxpayerIdentifiers
  ELSE "ok"

\* Validate with only tpInsc required.
ValidateTpInscOnly(b) ==
  IF ~Truthy(b.privateKeyPem) \/ ~Truthy(b.certificatePem) THEN MissingCredentials
  ELSE IF ~Truthy(b.ambiente) \/ b.ambiente.v \notin {"producao", "producao-restrita"}
    THEN InvalidEnvironment
  ELSE IF ~Truthy(b.tpInsc) THEN MissingTaxpayerIdentifiers
  ELSE "ok"

\* Validate with the environment checked before the credentials.
ValidateEnvironmentFirst(b) ==
  IF ~Truthy(b.ambiente) \/ b.ambiente.v \notin {"producao", "producao-restrita"}
    THEN InvalidEnvironment
  ELSE IF ~Truthy(b.privateKeyPem) \/ ~Truthy(b.certificatePem) THEN MissingCredentials
  ELSE IF ~Truthy(b.tpInsc) \/ ~TruthyChars(b.nrInsc) THEN MissingTaxpayerIdentifiers
  ELSE "ok"

\* The three checks of the payload, in the order of the code; "ok" when all pass.
Validate(b) ==
  IF ~Truthy(b.privateKeyPem) \/ ~Truthy(b.certificatePem) THEN MissingCredentials
  ELSE IF ~Truthy(b.ambiente) \/ b.ambiente.v \notin {"producao", "producao-restrita"}
    THEN InvalidEnvironment
  ELSE IF ~Truthy(b.tpInsc) \/ ~TruthyChars(b.nrInsc) THEN MissingTaxpayerIdentifiers
  ELSE "ok"

\* The calendar month of an instant, for instants within a month of the
\* boundary the clock starts before.
YearMonth(t) == IF t < MsToMonthEnd THEN "2024-11" ELSE "2024-12"

\* The period read from the UTC clock whatever the host's time zone.
getCurrentPeriodUtc(t, tz) == YearMonth(t)

\* getFullYear()/getMonth() read the host's local time.
getCurrentPeriod(t, tz) == YearMonth(t + tz)

\* The download envelope with the digits of nrInsc left at full length.
buildSoapEnvelopeNoTruncation(action, tpInsc, nrInsc, perApur, tpEvento) ==
  IF action = "consultar"
  THEN [xmlns |-> "http://www.esocial.gov.br/servicos/empregador/consulta/retornoProcessamento/v1_0_0",
        operation |-> "ConsultarLoteEventos",
        protocoloEnvio |-> "1"]
  ELSE [xmlns |-> "http://www.esocial.gov.br/servicos/empregador/download/v1_0_0",
        operation |-> "SolicitarDownloadEventos",
        tpInsc |-> tpInsc,
        nrInsc |-> StripNonDigits(nrInsc),
        perApur |-> perApur,
        tpEvento |-> tpEvento]

\* The query envelope carrying the taxpayer of the request.
buildSoapEnvelopeQueryWithTaxpayer(action, tpInsc, nrInsc, perApur, tpEvento) ==
  IF action = "consultar"
  THEN [xmlns |-> "http://www.esocial.gov.br/servicos/empregador/consulta/retornoProcessamento/v1_0_0",
        operation |-> "ConsultarLoteEventos",
        protocoloEnvio |-> "1",
        nrInsc |-> Substring0(StripNonDigits(nrInsc), NRINSC_LEN)]
  ELSE [xmlns |-> "http://www.esocial.gov.br/servicos/empregador/download/v1_0_0",
        operation |-> "SolicitarDownloadEventos",
        tpInsc |-> tpInsc,
        nrInsc |-> Substring0(StripNonDigits(nrInsc), NRINSC_LEN),
        perApur |-> perApur,
        tpEvento |-> tpEvento]

buildSoapEnvelope(action, tpInsc, nrInsc, perApur, tpEvento) ==
  IF action = "consultar"
  THEN [xmlns |-> "http://www.esocial.gov.br/servicos/empregador/consulta/retornoProcessamento/v1_0_0",
        operation |-> "ConsultarLoteEventos",
        protocoloEnvio |-> "1"]
  ELSE [xmlns |-> "http://www.esocial.gov.br/servicos/empregador/download/v1_0_0",
        operation |-> "SolicitarDownloadEventos",
        tpInsc |-> tpInsc,
        nrInsc |-> Substring0(StripNonDigits(nrInsc), NRINSC_LEN),
        perApur |-> perApur,
        tpEvento |-> tpEvento]

\* The action defaulting to the query operation.
RequestActionDefaultsToConsultar(b) == OrElse(b.action, "consultar")

\* const requestAction = action || 'download'
RequestAction(b) == OrElse(b.action, "download")
Periodo(b, t, tz) == OrElse(b.perApur, getCurrentPeriod(t, tz))
EventoTipo(b) == OrElse(b.tpEvento, "S-5002")

SoapBody(b, t, tz) ==
  buildSoapEnvelope(RequestAction(b), Val(b.tpInsc), b.nrInsc.v, Periodo(b, t, tz),
                    EventoTipo(b))

\* The SOAPAction of the download operation whatever the action.
SoapActionAlwaysDownload(b) == SOAPACTION_DOWNLOAD

SoapAction(b) ==
  IF RequestAction(b) = "consultar" THEN SOAPACTION_CONSULTA ELSE SOAPACTION_DOWNLOAD

RequestPath(b) ==
  IF RequestAction(b) = "consultar" THEN ESOCIAL_URLS[b.ambiente.v].consulta
  ELSE ESOCIAL_URLS[b.ambiente.v].download

\* The TypeError the handler's try block throws before it reaches
\* makeHttpsRequest, "none" when it throws nothing: ESOCIAL_URLS[ambiente] is
\* undefined for a name outside the table, nrInsc.replace needs a string.
HandlerThrows(b) ==
  IF ~(b.ambiente.def /\ b.ambiente.v \in DOMAIN ESOCIAL_URLS)
  THEN "Cannot read properties of undefined (reading 'download')"
  ELSE IF RequestAction(b) # "consultar" /\ ~b.nrInsc.def
  THEN "Cannot read properties of undefined (reading 'replace')"
  ELSE "none"

\* Server verification switched off for the restricted environment.
RejectUnauthorizedInProductionOnly(b) == b.ambiente.v = "producao"

\* rejectUnauthorized of the options object
RejectUnauthorized(b) == TRUE

\* The request options with the production host for both environments.
OptionsAlwaysProduction(b) ==
  [hostname |-> ESOCIAL_URLS["producao"].hostname,
   port |-> HTTPS_PORT,
   path |-> RequestPath(b),
   method |-> "POST",
   key |-> Val(b.privateKeyPem),
   cert |-> Val(b.certificatePem),
   rejectUnauthorized |-> RejectUnauthorized(b),
   headers |-> [ContentType |-> "application/soap+xml;charset=UTF-8",
                SOAPAction |-> SoapAction(b)],
   timeout |-> TIMEOUT_MS]

Options(b) ==
  [hostname |-> ESOCIAL_URLS[b.ambiente.v].hostname,
   port |-> HTTPS_PORT,
   path |-> RequestPath(b),
   method |-> "POST",
   key |-> Val(b.privateKeyPem),
   cert |-> Val(b.certificatePem),
   rejectUnauthorized |-> RejectUnauthorized(b),
   headers |-> [ContentType |-> "application/soap+xml;charset=UTF-8",
                SOAPAction |-> SoapAction(b)],
   timeout |-> TIMEOUT_MS]

\* makeHttpsRequest issuing the request a second time.
HttpsRequestsTwice(options, soapBody) ==
  <<[options |-> options, body |-> soapBody], [options |-> options, body |-> soapBody]>>

\* makeHttpsRequest issues https.request(options), req.write(body), req.end() once.
HttpsRequests(options, soapBody) == <<[options |-> options, body |-> soapBody]>>

-----------------------------------------------------------------------------
(* Pure functions of the scraping endpoint *)

\* The checks with the periods looked at before the CPFs.
IrrfValidatePeriodosFirst(b) ==
  IF ~Truthy(b.certificatePfx) \/ ~Truthy(b.password) THEN MissingPfxOrPassword
  ELSE IF ~TruthyValue(b.periodos) \/ ~IsArray(b.periodos) \/ Len(b.periodos.arr) = 0
  THEN MissingPeriodos
  ELSE IF ~TruthyValue(b.cpfs) \/ ~IsArray(b.cpfs) \/ Len(b.cpfs.arr) = 0 THEN MissingCpfs
  ELSE "ok"

\* The three checks of POST /api/esocial-irrf, in order; "ok" when all pass.
IrrfValidate(b) ==
  IF ~Truthy(b.certificatePfx) \/ ~Truthy(b.password) THEN MissingPfxOrPassword
  ELSE IF ~TruthyValue(b.cpfs) \/ ~IsArray(b.cpfs) \/ Len(b.cpfs.arr) = 0 THEN MissingCpfs
  ELSE IF ~TruthyValue(b.periodos) \/ ~IsArray(b.periodos) \/ Len(b.periodos.arr) = 0
  THEN MissingPeriodos
  ELSE "ok"

\* What consultarIRRF returns: the XML, the no-data message, or an error
ConsultOutcomes == {"xml", "semDados", "erro"}

Consulted(cpf, periodo, outcome) ==
  CASE outcome = "xml" ->
         [cpf |-> cpf, periodo |-> periodo, success |-> TRUE, xml |-> "<eSocial/>"]
    [] outcome = "semDados" ->
         [cpf |-> cpf, periodo |-> periodo, success |-> FALSE,
          message |-> "Sem dados para o periodo"]
    [] outcome = "erro" ->
         [cpf |-> cpf, periodo |-> periodo, success |-> FALSE, error |-> "consultation error"]

\* results.push({ cpf, periodo, success: false, error: error.message })
Failed(cpf, periodo, msg) ==
  [cpf |-> cpf, periodo |-> periodo, success |-> FALSE, error |-> msg]

\* safeResults.filter(r => r && r.success).length
RECURSIVE SuccessCount(_)
SuccessCount(rs) ==
  IF rs = <<>> THEN 0
  ELSE (IF Head(rs).success THEN 1 ELSE 0) + SuccessCount(Tail(rs))

\* The answer of the handler to the results of processMultiple
IrrfSuccess(rs, t0, t) ==
  [status |-> 200, success |-> TRUE, data |-> rs,
   summary |-> [total |-> Len(rs), successful |-> SuccessCount(rs),
                failed |-> Len(rs) - SuccessCount(rs)],
   elapsed |-> t - t0]

\* The answer of the outer catch
IrrfFailure(msg, t0, t) ==
  [status |-> 500, success |-> FALSE, error |-> msg, elapsed |-> t - t0]

-----------------------------------------------------------------------------
(* The promise of makeHttpsRequest and the handler's continuation *)

Pending == [state |-> "pending"]
Resolved(d, status) == [state |-> "resolved", data |-> d, statusCode |-> status]
Rejected(message) == [state |-> "rejected", message |-> message]

\* The 'timeout' listener rejecting without req.destroy(): the socket stays open.
KeepOpen(state) == state

\* req.destroy() in the 'timeout' listener
Destroy(state) == "destroyed"

\* A promise that takes the outcome of every resolve/reject call.
SettleLastWins(p, outcome) == outcome

\* resolve/reject: only the first call settles a promise.
Settle(p, outcome) == IF p.state = "pending" THEN outcome ELSE p

\* The 'end' listener accepting status 300.
EndOutcomeUpTo300(status, d) ==
  IF status >= 200 /\ status <= 300 THEN Resolved(d, status)
  ELSE Rejected(RemoteError(status, d))

\* res.on('end')
EndOutcome(status, d) ==
  IF status >= 200 /\ status < 300 THEN Resolved(d, status)
  ELSE Rejected(RemoteError(status, d))

\* The result answered without res.status(500) on the failure path.
ResultResponseAlways200(p, b, t0, t, tz) ==
  IF p.state = "resolved"
  THEN [status |-> 200, success |-> TRUE, data |-> p.data, statusCode |-> p.statusCode,
        ambiente |-> b.ambiente.v, periodo |-> Periodo(b, t0, tz), elapsed |-> t - t0]
  ELSE [status |-> 200, success |-> FALSE, error |-> p.message, elapsed |-> t - t0]

\* The response after `await makeHttpsRequest`: res.json on success, the catch
\* block's res.status(500).json on rejection.
ResultResponse(p, b, t0, t, tz) ==
  IF p.state = "resolved"
  THEN [status |-> 200, success |-> TRUE, data |-> p.data, statusCode |-> p.statusCode,
        ambiente |-> b.ambiente.v, periodo |-> Periodo(b, t0, tz), elapsed |-> t - t0]
  ELSE [status |-> 500, success |-> FALSE, error |-> p.message, elapsed |-> t - t0]

\* The catch block's response to an error thrown by the handler itself
ThrownResponse(msg, t0, t) ==
  [status |-> 500, success |-> FALSE, error |-> [prefix |-> msg], elapsed |-> t - t0]

ResultLog(p, t0, t) ==
  IF p.state = "resolved"
  THEN [line |-> "Success", elapsed |-> t - t0, length |-> Len(p.data)]
  ELSE [line |-> "Error", elapsed |-> t - t0, message |-> p.message]

-----------------------------------------------------------------------------
(* rateLimit *)

\* if (!requestCounts.has(ip)) requestCounts.set(ip, [])
WithEntry(rc, ip) ==
  [i \in DOMAIN rc \cup {ip} |-> IF i \in DOMAIN rc THEN rc[i] ELSE <<>>]

\* A window half as long as RATE_WINDOW.
RecentRequestsHalfWindow(rc, ip, t) ==
  LET windowStart == t - (RATE_WINDOW \div 2)
      InWindow(time) == time > windowStart
  IN SelectSeq(WithEntry(rc, ip)[ip], InWindow)

\* requestCounts.get(ip).filter(time => time > windowStart)
RecentRequests(rc, ip, t) ==
  LET windowStart == t - RATE_WINDOW
      InWindow(time) == time > windowStart
  IN SelectSeq(WithEntry(rc, ip)[ip], InWindow)

\* A limiter that also records the requests it rejects.
AfterRejectionRecorded(rc, ip, t) ==
  [WithEntry(rc, ip) EXCEPT ![ip] = Append(RecentRequests(rc, ip, t), t)]

\* The rejecting branch: the filtered list is not stored and nothing is pushed.
AfterRejection(rc, ip, t) == WithEntry(rc, ip)

\* recentRequests.push(now); requestCounts.set(ip, recentRequests)
AfterAdmission(rc, ip, t) ==
  [WithEntry(rc, ip) EXCEPT ![ip] = Append(RecentRequests(rc, ip, t), t)]

\* The limit applied one request late.
RateLimitedAbove(rc, ip, t) == Len(RecentRequests(rc, ip, t)) > RATE_LIMIT

\* if (recentRequests.length >= RATE_LIMIT) return res.status(429)
RateLimited(rc, ip, t) == Len(RecentRequests(rc, ip, t)) >= RATE_LIMIT

-----------------------------------------------------------------------------
(* Initial state *)

TzOffsets == {0, -10800000}

-----------------------------------------------------------------------------
(* The temporary files of a scraper *)

\* path.join(os.tmpdir(), ...): a name and what tells it from others of
\* the name
Path(name, id) == [name |-> name, id |-> id]

Null == Path("null", 0)

\* this.tempCertPath = null; this.tempNssDb = null; this.tempUserDataDir = null
NoTemp == [tempCertPath |-> Null, tempNssDb |-> Null, tempUserDataDir |-> Null]

\* cert_${timestamp}.pfx, nssdb_${timestamp}, chrome_profile_${timestamp}
TempPaths(timestamp) ==
  [tempCertPath |-> Path("cert.pfx", timestamp),
   tempNssDb |-> Path("nssdb", timestamp),
   tempUserDataDir |-> Path("chrome_profile", timestamp)]

PathsOf(t) == {t.tempCertPath, t.tempNssDb, t.tempUserDataDir} \ {Null}

\* fs.writeFileSync(this.tempCertPath), fs.mkdirSync(this.tempNssDb),
\* fs.mkdirSync(this.tempUserDataDir)
InitFiles(files, t) == files \cup PathsOf(t)

\* A close() that removes the certificate file only.
CloseFilesCertOnly(files, t) == files \ {t.tempCertPath}

\* close(): for each of the three paths that is set and exists, unlinkSync /
\* rmSync
CloseFiles(files, t) == files \ PathsOf(t)

\* The scraper objects of the process
Instances == 1..MaxInstances

\* The downloads in os.tmpdir(): files named *.xml with S-5002 in the name
XmlFiles(files) == {f \in files : f.name = "S-5002.xml"}

\* No scraper object, nothing in os.tmpdir()
TmpdirEmpty ==
  /\ tmpFiles = {}
  /\ temp = [i \in Instances |-> NoTemp]
  /\ phase = [i \in Instances |-> "none"]
  /\ fetched = [i \in Instances |-> 0]

\* No scraping call in progress
IrrfIdle ==
  /\ irrfPc = "idle"
  /\ irrfBody = NoIrrfBody
  /\ irrfStartTime = 0
  /\ scrapers = 0
  /\ browser = "none"
  /\ loginDone = FALSE
  /\ onIrrfPage = FALSE
  /\ pIdx = 0
  /\ cIdx = 0
  /\ results = <<>>
  /\ thrown = "none"
  /\ faults = 0
  /\ irrfResponses = <<>>

Init ==
  /\ now = 0
  /\ requestCounts = [i \in {} |-> <<>>]
  /\ admitted = [i \in {} |-> <<>>]
  /\ callNo = 0
  /\ pc = "idle"
  /\ body = NoBody
  /\ startTime = 0
  /\ outbound = <<>>
  /\ reqState = "none"
  /\ statusCode = 0
  /\ data = <<>>
  /\ chunks = <<>>
  /\ lastActivity = 0
  /\ hangup = FALSE
  /\ promise = [state |-> "none"]
  /\ responses = <<>>
  /\ log = <<>>
  /\ tzOffset = 0
  /\ IrrfIdle
  /\ TmpdirEmpty

-----------------------------------------------------------------------------
(* Actions *)

\* The transport of a fresh call: no request, no response.
NoTransport ==
  /\ outbound' = <<>>
  /\ reqState' = "none"
  /\ statusCode' = 0
  /\ data' = <<>>
  /\ chunks' = <<>>
  /\ lastActivity' = 0
  /\ hangup' = FALSE
  /\ promise' = [state |-> "none"]

\* console.log of the request: the action, environment, taxpayer and period
RequestLogLine(b, t, tz) ==
  [line |-> "Request", action |-> RequestAction(b), ambiente |-> Val(b.ambiente),
   nrInsc |-> Val(b.nrInsc), periodo |-> Periodo(b, t, tz)]

\* The request options logged whole.
ConnectingLogLineWithOptions(b) ==
  [line |-> "Connecting", hostname |-> Options(b).hostname, path |-> Options(b).path,
   key |-> Options(b).key, cert |-> Options(b).cert]

\* console.log before the outbound request: the host and path
ConnectingLogLine(b) ==
  [line |-> "Connecting", hostname |-> Options(b).hostname, path |-> Options(b).path]

\* POST /api/esocial: rateLimit, then the handler up to `await makeHttpsRequest`.
Handle(ip, b) ==
  /\ pc = "idle"
  /\ callNo' = callNo + 1
  /\ body' = b
  /\ UNCHANGED <<now, tzOffset, scraperVars, fileVars>>
  /\ IF RateLimited(requestCounts, ip, now)
     THEN /\ requestCounts' = AfterRejection(requestCounts, ip, now)
          /\ admitted' = admitted
          /\ responses' = <<[status |-> 429, success |-> FALSE, error |-> RateLimitExceeded]>>
          /\ pc' = "responded"
          /\ startTime' = 0
          /\ log' = <<>>
          /\ NoTransport
     ELSE /\ requestCounts' = AfterAdmission(requestCounts, ip, now)
          /\ admitted' = [WithEntry(admitted, ip) EXCEPT ![ip] = Append(@, now)]
          /\ startTime' = now
          /\ IF Validate(b) # "ok"
             THEN /\ responses' = <<[status |-> 400, success |-> FALSE, error |-> Validate(b)]>>
                  /\ pc' = "responded"
                  /\ log' = <<>>
                  /\ NoTransport
             ELSE IF HandlerThrows(b) # "none"
             THEN /\ responses' = <<ThrownResponse(HandlerThrows(b), now, now)>>
                  /\ pc' = "responded"
                  /\ log' = <<RequestLogLine(b, now, tzOffset),
                              [line |-> "Error", elapsed |-> 0,
                               message |-> [prefix |-> HandlerThrows(b)]]>>
                  /\ NoTransport
             ELSE /\ responses' = <<>>
                  /\ log' = <<RequestLogLine(b, now, tzOffset), ConnectingLogLine(b)>>
                  /\ outbound' = HttpsRequests(Options(b), SoapBody(b, now, tzOffset))
                  /\ reqState' = "connecting"
                  /\ lastActivity' = now
                  /\ promise' = Pending
                  /\ pc' = "awaiting"
                  /\ statusCode' = 0
                  /\ data' = <<>>
                  /\ chunks' = <<>>
                  /\ hangup' = FALSE

\* An inbound call, while the number of calls explored is below the bound.
Receive(ip, b) == callNo < MaxCalls /\ Handle(ip, b)

\* The handler resumes when the promise settles: one response, one log line.
Resume(p) ==
  IF promise.state = "pending" /\ p.state # "pending"
  THEN /\ responses' = Append(responses, ResultResponse(p, body, startTime, now, tzOffset))
       /\ log' = Append(log, ResultLog(p, startTime, now))
       /\ pc' = "responded"
  ELSE UNCHANGED <<responses, log, pc>>

SocketOpen == reqState \in {"connecting", "sent", "receiving"}

\* The socket connects, the TLS handshake completes and the request is flushed.
Connected ==
  /\ reqState = "connecting"
  /\ reqState' = "sent"
  /\ lastActivity' = now
  /\ UNCHANGED <<now, requestCounts, admitted, callNo, pc, body, startTime, outbound, statusCode,
                 data, chunks, hangup, promise, responses, log, tzOffset, scraperVars, fileVars>>

\* The response callback of https.request: the status line and headers arrived.
OnResponse(status) ==
  /\ reqState = "sent"
  /\ reqState' = "receiving"
  /\ statusCode' = status
  /\ data' = <<>>
  /\ lastActivity' = now
  /\ UNCHANGED <<now, requestCounts, admitted, callNo, pc, body, startTime, outbound, chunks,
                 hangup, promise, responses, log, tzOffset, scraperVars, fileVars>>

\* res.on('data')
OnData(chunk) ==
  /\ reqState = "receiving"
  /\ Len(chunks) < MaxChunks
  /\ data' = data \o chunk
  /\ chunks' = Append(chunks, chunk)
  /\ lastActivity' = now
  /\ UNCHANGED <<now, requestCounts, admitted, callNo, pc, body, startTime, outbound, reqState,
                 statusCode, hangup, promise, responses, log, tzOffset, scraperVars, fileVars>>

\* res.on('end')
OnEnd ==
  /\ reqState = "receiving"
  /\ reqState' = "ended"
  /\ promise' = Settle(promise, EndOutcome(statusCode, data))
  /\ Resume(promise')
  /\ UNCHANGED <<now, requestCounts, admitted, callNo, body, startTime, outbound, statusCode,
                 data, chunks, lastActivity, hangup, tzOffset, scraperVars, fileVars>>

\* req.on('error'): DNS, TLS or socket error while the socket is open.
OnError(msg) ==
  /\ SocketOpen
  /\ reqState' = "errored"
  /\ promise' = Settle(promise, Rejected(ConnectionError(msg)))
  /\ Resume(promise')
  /\ UNCHANGED <<now, requestCounts, admitted, callNo, body, startTime, outbound, statusCode,
                 data, chunks, lastActivity, hangup, tzOffset, scraperVars, fileVars>>

\* req.on('timeout'): the socket has been idle for options.timeout ms.
OnTimeout ==
  /\ SocketOpen
  /\ now - lastActivity >= TIMEOUT_MS
  /\ reqState' = Destroy(reqState)
  /\ hangup' = (reqState \in {"connecting", "sent"})
  /\ promise' = Settle(promise, Rejected(Timeout))
  /\ Resume(promise')
  /\ UNCHANGED <<now, requestCounts, admitted, callNo, body, startTime, outbound, statusCode,
                 data, chunks, lastActivity, tzOffset, scraperVars, fileVars>>

\* req.on('error') with 'socket hang up': req.destroy() closed a socket that
\* had no response yet.
OnHangup ==
  /\ reqState = "destroyed"
  /\ hangup
  /\ hangup' = FALSE
  /\ promise' = Settle(promise, Rejected(ConnectionError("socket hang up")))
  /\ Resume(promise')
  /\ UNCHANGED <<now, requestCounts, admitted, callNo, body, startTime, outbound, reqState,
                 statusCode, data, chunks, lastActivity, tzOffset, scraperVars, fileVars>>

\* The remote closes the connection after the headers and before the end of
\* the body: the response is aborted; no listener of the code is called.
OnAborted ==
  /\ reqState = "receiving"
  /\ reqState' = "aborted"
  /\ UNCHANGED <<now, requestCounts, admitted, callNo, pc, body, startTime, outbound, statusCode,
                 data, chunks, lastActivity, hangup, promise, responses, log, tzOffset, scraperVars, fileVars>>

\* The call is over: the objects of the call (request, response, socket,
\* promise) are unreachable and the next inbound call is taken.
Done ==
  /\ pc = "responded"
  /\ pc' = "idle"
  /\ body' = NoBody
  /\ startTime' = 0
  /\ responses' = <<>>
  /\ log' = <<>>
  /\ NoTransport
  /\ UNCHANGED <<now, requestCounts, admitted, callNo, tzOffset, scraperVars, fileVars>>

\* Time passes, up to the deadline of the socket's idle timer when one is armed.
Tick ==
  /\ now < MaxTicks * TickMs
  /\ ~(SocketOpen /\ now >= lastActivity + TIMEOUT_MS)
  /\ now' = IF SocketOpen THEN Min(now + TickMs, lastActivity + TIMEOUT_MS)
            ELSE now + TickMs
  /\ UNCHANGED <<requestCounts, admitted, callNo, pc, callVars, tzOffset, scraperVars, fileVars>>

-----------------------------------------------------------------------------
(* Actions of the scraping endpoint *)

NoScraper ==
  /\ scrapers' = 0
  /\ browser' = "none"
  /\ loginDone' = FALSE
  /\ onIrrfPage' = FALSE
  /\ pIdx' = 0
  /\ cIdx' = 0
  /\ results' = <<>>
  /\ thrown' = "none"
  /\ faults' = 0
  /\ phase' = [phase EXCEPT ![1] = "none"]
  /\ temp' = [temp EXCEPT ![1] = NoTemp]

\* POST /api/esocial-irrf: rateLimit, the three checks, new ESocialIRRFScraper
\* and the call of processMultiple, which sets results and loginDone.
IrrfHandle(ip, b) ==
  /\ pc = "idle"
  /\ irrfPc = "idle"
  /\ callNo' = callNo + 1
  /\ irrfBody' = b
  /\ UNCHANGED <<now, pc, callVars, tzOffset, tmpFiles, fetched>>
  /\ IF RateLimited(requestCounts, ip, now)
     THEN /\ requestCounts' = AfterRejection(requestCounts, ip, now)
          /\ admitted' = admitted
          /\ irrfResponses' = <<[status |-> 429, success |-> FALSE,
                                 error |-> RateLimitExceeded]>>
          /\ irrfPc' = "responded"
          /\ irrfStartTime' = 0
          /\ NoScraper
     ELSE /\ requestCounts' = AfterAdmission(requestCounts, ip, now)
          /\ admitted' = [WithEntry(admitted, ip) EXCEPT ![ip] = Append(@, now)]
          /\ irrfStartTime' = now
          /\ IF IrrfValidate(b) # "ok"
             THEN /\ irrfResponses' = <<[status |-> 400, success |-> FALSE,
                                         error |-> IrrfValidate(b)]>>
                  /\ irrfPc' = "responded"
                  /\ NoScraper
             ELSE /\ irrfResponses' = <<>>
                  /\ irrfPc' = "init"
                  /\ scrapers' = 1
                  /\ browser' = "none"
                  /\ loginDone' = FALSE
                  /\ onIrrfPage' = FALSE
                  /\ pIdx' = 0
                  /\ cIdx' = 0
                  /\ results' = <<>>
                  /\ thrown' = "none"
                  /\ faults' = 0
                  /\ phase' = [phase EXCEPT ![1] = "new"]
                  /\ temp' = [temp EXCEPT ![1] = NoTemp]

IrrfReceive(ip, b) == callNo < MaxCalls /\ IrrfHandle(ip, b)

\* A browser operation may throw while the call has faults to spend.
MayThrow == faults < MaxFaults

\* throw error: the handler's inner catch takes the error and closes the
\* scraper.
Rethrow(msg) ==
  /\ thrown' = msg
  /\ irrfPc' = "closeAfterError"
  /\ faults' = faults + 1

\* A catch that rethrows whatever it caught.
MustRethrowAlways == TRUE

\* if (!loginDone) throw error
MustRethrow == ~loginDone

\* The catch of processMultiple: the error is thrown on before login is done
\* and dropped after it, and then `return results` follows.
ProcessError(msg) ==
  IF MustRethrow
  THEN Rethrow(msg)
  ELSE /\ faults' = faults + 1
       /\ irrfPc' = "close"
       /\ thrown' = thrown

\* await this.init(): the temporary files, the NSS database, puppeteer.launch,
\* browser.newPage.  The files exist before anything can throw.
ScraperInit(ok, launched) ==
  /\ irrfPc = "init"
  /\ temp' = [temp EXCEPT ![1] = TempPaths(now)]
  /\ tmpFiles' = InitFiles(tmpFiles, TempPaths(now))
  /\ phase' = [phase EXCEPT ![1] = "live"]
  /\ IF ok
     THEN /\ launched
          /\ browser' = "open"
          /\ irrfPc' = "login"
          /\ UNCHANGED <<thrown, faults>>
     ELSE /\ MayThrow
          /\ browser' = IF launched THEN "open" ELSE "none"
          /\ ProcessError("Falha ao configurar certificado NSS")
  /\ UNCHANGED <<relayVars, fetched, irrfBody, irrfStartTime, scrapers, loginDone, onIrrfPage,
                 pIdx, cIdx, results, irrfResponses>>

\* await this.login(); loginDone = true
ScraperLogin(ok) ==
  /\ irrfPc = "login"
  /\ IF ok
     THEN /\ loginDone' = TRUE
          /\ irrfPc' = "navigate"
          /\ UNCHANGED <<thrown, faults>>
     ELSE /\ MayThrow
          /\ loginDone' = loginDone
          /\ ProcessError("Login nao completado")
  /\ UNCHANGED <<relayVars, fileVars, irrfBody, irrfStartTime, scrapers, browser, onIrrfPage,
                 pIdx, cIdx, results, irrfResponses>>

\* await this.navigateToIRRF(); its error is caught after login and the
\* results gathered so far, none, are returned.
NavigateToIRRF(ok) ==
  /\ irrfPc = "navigate"
  /\ IF ok
     THEN /\ onIrrfPage' = TRUE
          /\ pIdx' = 1
          /\ cIdx' = 1
          /\ irrfPc' = "consultar"
          /\ UNCHANGED <<faults, thrown>>
     ELSE /\ MayThrow
          /\ ProcessError("Falha na navegacao")
          /\ UNCHANGED <<onIrrfPage, pIdx, cIdx>>
  /\ UNCHANGED <<relayVars, fileVars, irrfBody, irrfStartTime, scrapers, browser, loginDone,
                 results, irrfResponses>>

\* The loop moves to the next CPF, then to the next period, then returns.
NextPair ==
  IF cIdx < Len(irrfBody.cpfs.arr)
  THEN /\ cIdx' = cIdx + 1
       /\ pIdx' = pIdx
       /\ irrfPc' = "consultar"
  ELSE IF pIdx < Len(irrfBody.periodos.arr)
  THEN /\ pIdx' = pIdx + 1
       /\ cIdx' = 1
       /\ irrfPc' = "consultar"
  ELSE /\ irrfPc' = "close"
       /\ UNCHANGED <<pIdx, cIdx>>

\* const result = await this.consultarIRRF(cpf, periodo); results.push(result)
\* when it returns; the catch of the loop body pushes a failure when it throws
\* (its own catch throws when page.screenshot does).
ConsultarIRRF(outcome) ==
  /\ irrfPc = "consultar"
  /\ LET cpf == irrfBody.cpfs.arr[cIdx]
         periodo == irrfBody.periodos.arr[pIdx]
     IN IF outcome = "xml"
        THEN /\ results' = Append(results, Consulted(cpf, periodo, outcome))
             /\ irrfPc' = "voltar"
             /\ UNCHANGED <<pIdx, cIdx, faults>>
        ELSE IF outcome \in ConsultOutcomes
        THEN /\ MayThrow
             /\ faults' = faults + 1
             /\ results' = Append(results, Consulted(cpf, periodo, outcome))
             /\ irrfPc' = "voltar"
             /\ UNCHANGED <<pIdx, cIdx>>
        ELSE /\ MayThrow
             /\ faults' = faults + 1
             /\ results' = Append(results, Failed(cpf, periodo, "screenshot failed"))
             /\ NextPair
  /\ UNCHANGED <<relayVars, fileVars, irrfBody, irrfStartTime, scrapers, browser, loginDone,
                 onIrrfPage, thrown, irrfResponses>>

\* The click on Voltar after a consultation that returned: page.$ and the
\* button's click are inside try/catch, clickByText (page.evaluate) is not,
\* and its error reaches the catch of the loop body, which pushes a failure.
Voltar(ok) ==
  /\ irrfPc = "voltar"
  /\ IF ok
     THEN UNCHANGED <<results, faults>>
     ELSE /\ MayThrow
          /\ faults' = faults + 1
          /\ results' = Append(results,
                                Failed(irrfBody.cpfs.arr[cIdx], irrfBody.periodos.arr[pIdx],
                                       "Execution context was destroyed"))
  /\ NextPair
  /\ UNCHANGED <<relayVars, fileVars, irrfBody, irrfStartTime, scrapers, browser, loginDone,
                 onIrrfPage, thrown, irrfResponses>>

\* await scraper.close() and the answer: after processMultiple returned, or
\* in the inner catch before the error is thrown on to the outer catch.
\* close() closes the browser if one was launched and removes the three
\* temporary paths that exist.
IrrfClose ==
  /\ irrfPc \in {"close", "closeAfterError"}
  /\ browser' = IF browser = "open" THEN "closed" ELSE browser
  /\ tmpFiles' = CloseFiles(tmpFiles, temp[1])
  /\ phase' = [phase EXCEPT ![1] = "closed"]
  /\ irrfResponses' =
       <<IF irrfPc = "close" THEN IrrfSuccess(results, irrfStartTime, now)
         ELSE IrrfFailure(thrown, irrfStartTime, now)>>
  /\ irrfPc' = "responded"
  /\ UNCHANGED <<relayVars, temp, fetched, irrfBody, irrfStartTime, scrapers, loginDone,
                 onIrrfPage, pIdx, cIdx, results, thrown, faults>>

\* The scraping call is over.
IrrfDone ==
  /\ irrfPc = "responded"
  /\ irrfPc' = "idle"
  /\ irrfBody' = NoIrrfBody
  /\ irrfStartTime' = 0
  /\ irrfResponses' = <<>>
  /\ NoScraper
  /\ UNCHANGED <<relayVars, tmpFiles, fetched>>

\* Every request, against a remote with few behaviours.
Next ==
  \/ \E ip \in IPs, b \in Bodies : Receive(ip, b)
  \/ Connected
  \/ \E status \in FewStatusCodes : OnResponse(status)
  \/ \E chunk \in FewChunkValues : OnData(chunk)
  \/ OnEnd
  \/ \E msg \in FewTransportErrors : OnError(msg)
  \/ OnTimeout
  \/ OnHangup
  \/ OnAborted
  \/ Done
  \/ Tick

Spec == Init /\ [][Next]_vars

\* One request, against every behaviour of the remote.
NextTransport ==
  \/ Receive("10.0.0.1", DownloadBody)
  \/ Connected
  \/ \E status \in StatusCodes : OnResponse(status)
  \/ \E chunk \in ChunkValues : OnData(chunk)
  \/ OnEnd
  \/ \E msg \in TransportErrors : OnError(msg)
  \/ OnTimeout
  \/ OnHangup
  \/ OnAborted
  \/ Done
  \/ Tick

SpecTransport == Init /\ [][NextTransport]_vars

\* Every taxpayer number and field combination, against a remote that refuses
\* the connection, at one instant.
NextEnvelope ==
  \/ pc = "idle" /\ callNo < MaxCalls /\ \E b \in EnvelopeBodies : Receive("10.0.0.1", b)
  \/ OnError("ECONNREFUSED")
  \/ Done

SpecEnvelope == Init /\ [][NextEnvelope]_vars

\* The host runs in UTC or three hours behind it.
InitAnyZone ==
  /\ tzOffset \in TzOffsets
  /\ now = 0
  /\ requestCounts = [i \in {} |-> <<>>]
  /\ admitted = [i \in {} |-> <<>>]
  /\ callNo = 0
  /\ pc = "idle"
  /\ body = NoBody
  /\ startTime = 0
  /\ outbound = <<>>
  /\ reqState = "none"
  /\ statusCode = 0
  /\ data = <<>>
  /\ chunks = <<>>
  /\ lastActivity = 0
  /\ hangup = FALSE
  /\ promise = [state |-> "none"]
  /\ responses = <<>>
  /\ log = <<>>
  /\ IrrfIdle
  /\ TmpdirEmpty

\* Calls with and without a period, around the end of a UTC month, answered
\* by a remote that accepts them.
NextPeriod ==
  \/ \E b \in PeriodBodies : Receive("10.0.0.1", b)
  \/ Connected
  \/ OnResponse(200)
  \/ OnEnd
  \/ Done
  \/ Tick

SpecPeriod == InitAnyZone /\ [][NextPeriod]_vars

\* The calls of a burst: two more than the limiter admits
BurstCalls == RATE_LIMIT + 2

\* The bodies of the burst: one that fails the checks, one that passes them
BurstBodies == {NoBody, DownloadBody}

\* A burst of calls from one address at one instant, against a remote that
\* refuses the connection.
NextBurst ==
  \/ pc = "idle" /\ callNo < BurstCalls /\ \E b \in BurstBodies : Handle("10.0.0.1", b)
  \/ OnError("ECONNREFUSED")
  \/ Done

SpecBurst == Init /\ [][NextBurst]_vars

\* Time passes while a socket timer is armed, up to its deadline, however
\* late the call started.
TimerTick ==
  /\ SocketOpen
  /\ now < lastActivity + TIMEOUT_MS
  /\ now' = Min(now + TickMs, lastActivity + TIMEOUT_MS)
  /\ UNCHANGED <<requestCounts, admitted, callNo, pc, callVars, tzOffset, scraperVars, fileVars>>

\* One request against every behaviour of the remote, with a clock that keeps
\* running and timers that fire when due: the remote owes nothing.
NextTransportFair ==
  \/ Receive("10.0.0.1", DownloadBody)
  \/ Connected
  \/ \E status \in StatusCodes : OnResponse(status)
  \/ \E chunk \in ChunkValues : OnData(chunk)
  \/ OnEnd
  \/ \E msg \in TransportErrors : OnError(msg)
  \/ OnTimeout
  \/ OnHangup
  \/ OnAborted
  \/ Done
  \/ TimerTick

SpecTransportFair ==
  /\ Init
  /\ [][NextTransportFair]_vars
  /\ WF_vars(TimerTick)
  /\ WF_vars(OnTimeout)
  /\ WF_vars(OnHangup)

\* The calls of a batch: half of what the limiter admits in a window
BatchSize == RATE_LIMIT \div 2

\* The calls of the limiter's scenario: two windows full
WindowCalls == 2 * RATE_LIMIT

\* The body the second address sends: it fails the checks as well
OtherBody == [NoBody EXCEPT !.ambiente = Str("homologacao")]

\* Between two batches the clock moves to the last millisecond of the window
\* that opened at 0, then to the first millisecond after it.
WindowTick ==
  /\ pc = "idle"
  /\ irrfPc = "idle"
  /\ callNo % BatchSize = 0
  /\ now < RATE_WINDOW
  /\ now' = IF now < RATE_WINDOW - 1 THEN RATE_WINDOW - 1 ELSE RATE_WINDOW
  /\ UNCHANGED <<requestCounts, admitted, callNo, pc, callVars, tzOffset, scraperVars, fileVars>>

\* Batches of calls to both endpoints from one address, one call from a
\* second one, around the end of a window.  The bodies fail the checks, so a
\* call the limiter passes on is answered 400 at once.
NextWindow ==
  \/ pc = "idle" /\ irrfPc = "idle" /\ callNo < WindowCalls /\ Handle("10.0.0.1", NoBody)
  \/ pc = "idle" /\ irrfPc = "idle" /\ callNo < WindowCalls
        /\ IrrfHandle("10.0.0.1", NoIrrfBody)
  \/ pc = "idle" /\ irrfPc = "idle" /\ callNo < WindowCalls
        /\ "10.0.0.2" \notin DOMAIN requestCounts /\ Handle("10.0.0.2", OtherBody)
  \/ Done
  \/ IrrfDone
  \/ WindowTick

SpecWindow == Init /\ [][NextWindow]_vars

\* new ESocialIRRFScraper(certificatePfx, password) for a call that passed
\* the checks, while the scrapers of earlier calls are at work, and its
\* init() up to the first await: const timestamp = Date.now() names its
\* three paths.
InstanceInit(i) ==
  /\ phase[i] = "none"
  /\ temp' = [temp EXCEPT ![i] = TempPaths(now)]
  /\ tmpFiles' = InitFiles(tmpFiles, TempPaths(now))
  /\ phase' = [phase EXCEPT ![i] = "live"]
  /\ UNCHANGED <<relayVars, scraperVars, fetched>>

\* downloadXML: downloadButton.click() with downloadPath os.tmpdir(); the
\* browser of the scraper saves the file while the scraper sleeps.
ClickDownload(i) ==
  /\ phase[i] = "live"
  /\ tmpFiles' = tmpFiles \cup {Path("S-5002.xml", i)}
  /\ phase' = [phase EXCEPT ![i] = "waiting"]
  /\ UNCHANGED <<relayVars, scraperVars, temp, fetched>>

\* downloadXML after the sleep: of the downloads found in os.tmpdir() the
\* one whose name sorts last is read and unlinked; the names are the
\* browser's.  null when there is none.
ReadDownload(i) ==
  /\ phase[i] = "waiting"
  /\ IF XmlFiles(tmpFiles) = {}
     THEN /\ fetched' = [fetched EXCEPT ![i] = 0]
          /\ tmpFiles' = tmpFiles
     ELSE \E latestFile \in XmlFiles(tmpFiles) :
            /\ fetched' = [fetched EXCEPT ![i] = latestFile.id]
            /\ tmpFiles' = tmpFiles \ {latestFile}
  /\ phase' = [phase EXCEPT ![i] = "live"]
  /\ UNCHANGED <<relayVars, scraperVars, temp>>

\* close() of the scraper, between two of its operations on the page
InstanceClose(i) ==
  /\ phase[i] = "live"
  /\ tmpFiles' = CloseFiles(tmpFiles, temp[i])
  /\ phase' = [phase EXCEPT ![i] = "closed"]
  /\ UNCHANGED <<relayVars, scraperVars, temp, fetched>>

\* The scrapers of concurrent calls, each reduced to what it does in
\* os.tmpdir(); every await of one lets the others run.
NextInstances ==
  \/ \E i \in Instances : InstanceInit(i)
  \/ \E i \in Instances : ClickDownload(i)
  \/ \E i \in Instances : ReadDownload(i)
  \/ \E i \in Instances : InstanceClose(i)
  \/ Tick

SpecInstances == Init /\ [][NextInstances]_vars

\* Every scraping request, against a browser that fails at most MaxFaults times.
NextIrrf ==
  \/ pc = "idle" /\ irrfPc = "idle" /\ \E b \in IrrfBodies : IrrfReceive("10.0.0.1", b)
  \/ \E ok, launched \in BOOLEAN : ScraperInit(ok, launched)
  \/ \E ok \in BOOLEAN : ScraperLogin(ok)
  \/ \E ok \in BOOLEAN : NavigateToIRRF(ok)
  \/ \E outcome \in ConsultOutcomes \cup {"throws"} : ConsultarIRRF(outcome)
  \/ \E ok \in BOOLEAN : Voltar(ok)
  \/ IrrfClose
  \/ IrrfDone

SpecIrrf == Init /\ [][NextIrrf]_vars

-----------------------------------------------------------------------------
(* Properties of the relay                                                  *)

\* The request reached the handler: rateLimit did not answer it.
Handled == pc # "idle" /\ ~(Len(responses) > 0 /\ responses[1].status = 429)

Missing(x) == x = Absent \/ x = Str("")
MissingChars(x) == x = Absent \/ x = Str(<<>>)
NoCredentials == Missing(body.privateKeyPem) \/ Missing(body.certificatePem)
BadEnvironment == body.ambiente \notin {Str("producao"), Str("producao-restrita")}
NoTaxpayerIds == Missing(body.tpInsc) \/ MissingChars(body.nrInsc)

\* The call was answered with one client error and touched no network.
ClientError(message) ==
  /\ pc = "responded"
  /\ responses = <<[status |-> 400, success |-> FALSE, error |-> message]>>
  /\ outbound = <<>>
  /\ reqState = "none"
  /\ promise.state = "none"

\* C1: a handled request whose privateKeyPem or certificatePem is absent or
\* empty is answered 400 with the missing-credentials message, and no outbound
\* request is issued for it.
C1_MissingCredentials ==
  (Handled /\ NoCredentials) => ClientError(MissingCredentials)

C1_Witness ==
  /\ pc = "responded"
  /\ body.privateKeyPem = Str("")
  /\ body.certificatePem = Str("CERT")
  /\ body.ambiente = Str("producao")
  /\ body.tpInsc = Str("1") /\ body.nrInsc = Str(CNPJ)
  /\ responses[1].status = 400

\* C2: a handled request with credentials whose ambiente is absent or is not
\* exactly 'producao' or 'producao-restrita' is answered 400 with the
\* invalid-environment message, and no outbound request is issued for it.
C2_InvalidEnvironment ==
  (Handled /\ ~NoCredentials /\ BadEnvironment) => ClientError(InvalidEnvironment)

C2_Witness ==
  /\ pc = "responded"
  /\ ~NoCredentials
  /\ body.ambiente = Str("homologacao")
  /\ body.tpInsc = Str("1") /\ body.nrInsc = Str(CNPJ)
  /\ responses[1].status = 400

\* C3: a handled request with credentials and a valid environment whose tpInsc
\* or nrInsc is missing is answered 400 with the missing-identifiers message
\* in the step that receives it, and no outbound request is issued for it.
C3_MissingTaxpayerIdentifiers ==
  (Handled /\ ~NoCredentials /\ ~BadEnvironment /\ NoTaxpayerIds)
    => ClientError(MissingTaxpayerIdentifiers)

C3_Witness ==
  /\ pc = "responded"
  /\ ~NoCredentials /\ ~BadEnvironment
  /\ body.tpInsc = Str("1") /\ body.nrInsc = Absent
  /\ responses[1].status = 400

\* The error of the earliest failing check, "ok" when no check fails.
FirstFailing ==
  IF NoCredentials THEN MissingCredentials
  ELSE IF BadEnvironment THEN InvalidEnvironment
  ELSE IF NoTaxpayerIds THEN MissingTaxpayerIdentifiers
  ELSE "ok"

\* C4: the checks run in the order credentials, environment, identifiers and
\* the first failing one decides the answer; a 400 answer is given exactly
\* when some check fails, and with it the handler wrote no log line, issued
\* no request and created no promise.
C4_FirstFailingCheckDecides ==
  Handled =>
    /\ (FirstFailing # "ok") => /\ ClientError(FirstFailing)
                                /\ log = <<>>
    /\ (Len(responses) > 0 /\ responses[1].status = 400) => FirstFailing # "ok"

C4_Witness ==
  /\ pc = "responded"
  /\ body.privateKeyPem = Absent
  /\ body.ambiente = Str("homologacao")
  /\ body.tpInsc = Absent
  /\ responses[1].error = MissingCredentials

\* C5: every outbound request carries rejectUnauthorized = true, whatever the
\* request body.
C5_ServerCertificateValidated ==
  \A i \in 1..Len(outbound) : outbound[i].options.rejectUnauthorized = TRUE

C5_Witness ==
  /\ Len(outbound) = 1
  /\ body.ambiente = Str("producao-restrita")
  /\ reqState = "sent"

\* The socket saw no activity after the instant the request was issued, and
\* no response line arrived: the remote has not responded.
RemoteSilent == Len(outbound) > 0 /\ lastActivity = startTime /\ statusCode = 0

TimeoutResponse(elapsed) ==
  [status |-> 500, success |-> FALSE, error |-> Timeout, elapsed |-> elapsed]

C7_SingleCeiling ==
  Len(outbound) > 0 =>
    /\ (pc = "awaiting") => now - startTime <= TIMEOUT_MS
    /\ (pc = "responded") => responses[1].elapsed <= TIMEOUT_MS

Is2xx(status) == 200 <= status /\ status <= 299

\* C8: a call that reached the transport is answered with success exactly
\* when the response ended with a status in [200, 300); the body returned is
\* the concatenation of the chunks delivered; the promise is resolved, or
\* rejected with the remote-status error, only once the response has ended.
C8_SuccessOnlyOnCompleteResponse ==
  /\ (pc = "responded" /\ Len(outbound) > 0)
       => (responses[1].success <=> (reqState = "ended" /\ Is2xx(statusCode)))
  /\ (pc = "responded" /\ responses[1].success)
       => /\ responses[1].status = 200
          /\ responses[1].data = Flatten(chunks)
          /\ responses[1].statusCode = statusCode
  /\ (promise.state = "resolved"
        \/ (promise.state = "rejected" /\ promise.message.prefix = "eSocial retornou status "))
       => reqState = "ended"

C8_Witness ==
  /\ pc = "responded"
  /\ responses[1].success
  /\ statusCode = 299
  /\ Len(chunks) = 2 /\ chunks[1] # chunks[2]

IsPrefixOf(s, t) == Len(s) <= Len(t) /\ \A i \in 1..Len(s) : s[i] = t[i]

\* C9: a response that ended with a status outside [200, 300) is answered 500
\* with the remote-status error carrying that status and the first 500
\* characters of the body (the whole body when it is shorter).
C9_RemoteErrorTruncated ==
  (pc = "responded" /\ reqState = "ended" /\ ~Is2xx(statusCode)) =>
    /\ Len(responses) = 1
    /\ responses[1].status = 500
    /\ responses[1].error.prefix = "eSocial retornou status "
    /\ responses[1].error.status = statusCode
    /\ IsPrefixOf(responses[1].error.text, Flatten(chunks))
    /\ Len(responses[1].error.text) =
         IF Len(Flatten(chunks)) < ERROR_BODY_LIMIT THEN Len(Flatten(chunks))
         ELSE ERROR_BODY_LIMIT

C9_Witness ==
  /\ pc = "responded"
  /\ reqState = "ended"
  /\ statusCode = 503
  /\ Len(Flatten(chunks)) = 2000
  /\ Len(responses[1].error.text) = ERROR_BODY_LIMIT

-----------------------------------------------------------------------------
(* Status, elapsed time and the default action                              *)

TransportSucceeded == reqState = "ended" /\ Is2xx(statusCode)

\* A connection error, a timeout, or a response that ended outside [200, 300)
TransportFailed ==
  \/ reqState \in {"errored", "destroyed"}
  \/ reqState = "ended" /\ ~Is2xx(statusCode)

\* The three error messages makeHttpsRequest rejects with
NormalizedError(e) ==
  e.prefix \in {"eSocial retornou status ", "Erro de conexao com eSocial: ",
                "Timeout na conexao com eSocial (30s)"}

C12_EveryResponseHasElapsed ==
  (Handled /\ pc = "responded") =>
    \A i \in 1..Len(responses) : "elapsed" \in DOMAIN responses[i]

\* The request with its action written out as 'download'
AsDownload(b) == [b EXCEPT !.action = Str("download")]

\* C13: a call whose action is omitted issues the request of the same call
\* with action = 'download' (same options, path, SOAPAction and envelope, the
\* download ones), writes the same log lines and is answered as that call is.
C13_OmittedActionIsDownload ==
  (Handled /\ FirstFailing = "ok" /\ body.action = Absent) =>
    /\ outbound = <<[options |-> Options(AsDownload(body)),
                     body |-> SoapBody(AsDownload(body), startTime, tzOffset)]>>
    /\ outbound[1].options.path = ESOCIAL_URLS[body.ambiente.v].download
    /\ outbound[1].options.headers.SOAPAction = SOAPACTION_DOWNLOAD
    /\ outbound[1].body.operation = "SolicitarDownloadEventos"
    /\ log[1] = RequestLogLine(AsDownload(body), startTime, tzOffset)
    /\ log[1].action = "download"
    /\ log[2] = ConnectingLogLine(AsDownload(body))
    /\ (pc = "responded") =>
         responses = <<ResultResponse(promise, AsDownload(body), startTime,
                                      startTime + responses[1].elapsed, tzOffset)>>

C13_Witness ==
  /\ pc = "responded"
  /\ body.action = Absent
  /\ body.ambiente = Str("producao-restrita")
  /\ responses[1].status = 200
  /\ outbound[1].body.operation = "SolicitarDownloadEventos"

-----------------------------------------------------------------------------
(* The envelope and the default period                                      *)

DigitPositions(s) == {i \in 1..Len(s) : s[i] \in Digits}

\* The position of the k-th digit of s
NthDigitPosition(s, k) ==
  CHOOSE p \in DigitPositions(s) : Cardinality({q \in DigitPositions(s) : q <= p}) = k

\* The first n digits of s in their order, all of them when s has fewer
FirstDigits(s, n) ==
  [k \in 1..Min(n, Cardinality(DigitPositions(s))) |-> s[NthDigitPosition(s, k)]]

IssuesDownload == Handled /\ FirstFailing = "ok" /\ body.action # Str("consultar")

\* C14: the nrInsc of every download envelope is the nrInsc of the request
\* with every non-digit character removed and then cut to its first 8
\* characters, whatever string the request carries.
C14_NrInscDigitsTruncated ==
  IssuesDownload =>
    /\ Len(outbound) = 1
    /\ outbound[1].body.nrInsc = FirstDigits(body.nrInsc.v, 8)
    /\ Len(outbound[1].body.nrInsc) <= 8
    /\ \A i \in 1..Len(outbound[1].body.nrInsc) : outbound[1].body.nrInsc[i] \in Digits

C14_Witness ==
  /\ IssuesDownload
  /\ body.nrInsc = Str(CNPJ)
  /\ outbound[1].body.nrInsc = <<"1", "2", "3", "4", "5", "6", "7", "8">>

\* A call that takes the default period
DefaultsPeriod == Handled /\ FirstFailing = "ok" /\ body.perApur \in {Absent, Str("")}

\* C15 (as claimed): with perApur omitted the period of the download envelope
\* and of the answer is the UTC year-month of the instant the call started,
\* whatever the host's time zone.
C15_DefaultPeriodIsUtc ==
  DefaultsPeriod =>
    /\ (body.action # Str("consultar")) => outbound[1].body.perApur = YearMonth(startTime)
    /\ (pc = "responded" /\ responses[1].status = 200)
         => responses[1].periodo = YearMonth(startTime)

\* C15 (amended): with perApur omitted the period of the download envelope
\* and of the answer is the year-month of the host's local time at the
\* instant the call started; it is the UTC year-month when the host's zone is
\* UTC.
C15_DefaultPeriodIsLocal ==
  DefaultsPeriod =>
    /\ (body.action # Str("consultar"))
         => outbound[1].body.perApur = YearMonth(startTime + tzOffset)
    /\ (pc = "responded" /\ responses[1].status = 200)
         => responses[1].periodo = YearMonth(startTime + tzOffset)
    /\ (tzOffset = 0 /\ body.action # Str("consultar"))
         => outbound[1].body.perApur = YearMonth(startTime)

C15_Witness ==
  /\ DefaultsPeriod
  /\ pc = "responded"
  /\ tzOffset < 0
  /\ startTime >= MsToMonthEnd
  /\ body.action = Absent
  /\ outbound[1].body.perApur = "2024-11"
  /\ responses[1].periodo = "2024-11"

\* The one envelope of the query operation
ConsultarEnvelope ==
  [xmlns |-> "http://www.esocial.gov.br/servicos/empregador/consulta/retornoProcessamento/v1_0_0",
   operation |-> "ConsultarLoteEventos",
   protocoloEnvio |-> "1"]

\* C16: the envelope of a call with action = 'consultar' is the same fixed
\* envelope for every tpInsc, nrInsc, perApur and tpEvento of the request.
C16_ConsultarEnvelopeFixed ==
  (Handled /\ FirstFailing = "ok" /\ body.action = Str("consultar")) =>
    /\ Len(outbound) = 1
    /\ outbound[1].body = ConsultarEnvelope

C16_Witness ==
  /\ Handled
  /\ body.action = Str("consultar")
  /\ body.tpInsc = Str("2")
  /\ body.nrInsc = Str(<<"4", "2">>)
  /\ body.perApur = Str("2023-01")
  /\ body.tpEvento = Str("S-1200")
  /\ outbound[1].body.protocoloEnvio = "1"

-----------------------------------------------------------------------------
(* State shared between calls                                               *)

\* The answer and the request a call gets from its own body and transport
AnsweredFromOwnRequest ==
  /\ (FirstFailing # "ok") => ClientError(FirstFailing)
  /\ (FirstFailing = "ok") =>
       /\ outbound = <<[options |-> Options(body),
                        body |-> SoapBody(body, startTime, tzOffset)]>>
       /\ responses = <<[status |-> 500, success |-> FALSE, error |-> promise.message,
                         elapsed |-> 0]>>
       /\ reqState = "errored"

\* C17 (as claimed): calls share no mutable state: every call is answered
\* from its own request and the remote's behaviour, however many calls were
\* made before it.
C17_IndependentOfEarlierCalls ==
  (pc = "responded") => AnsweredFromOwnRequest

\* C17 (amended): calls share the limiter's list of admission times and
\* nothing else: in a burst from one address the first 100 calls are each
\* answered from their own request and the remote's behaviour, and every
\* later call is answered 429 whatever it asks, with no request issued.
C17_SharedOnlyThroughRateLimit ==
  (pc = "responded") =>
    IF callNo > 100
    THEN /\ responses = <<[status |-> 429, success |-> FALSE, error |-> RateLimitExceeded]>>
         /\ outbound = <<>>
         /\ Len(requestCounts["10.0.0.1"]) = 100
    ELSE /\ AnsweredFromOwnRequest
         /\ Len(requestCounts["10.0.0.1"]) = callNo

C17_Witness ==
  /\ pc = "responded"
  /\ callNo = 101
  /\ body = DownloadBody
  /\ responses[1].status = 429

-----------------------------------------------------------------------------
(* The client credentials                                                   *)

\* The key and certificate of the call in progress
Secrets == {Val(body.privateKeyPem), Val(body.certificatePem)} \ {"undefined", ""}

\* The fields each log line prints
LogFields(line) ==
  CASE line = "Request" -> {"line", "action", "ambiente", "nrInsc", "periodo"}
    [] line = "Connecting" -> {"line", "hostname", "path"}
    [] line = "Success" -> {"line", "elapsed", "length"}
    [] line = "Error" -> {"line", "elapsed", "message"}

\* The fields of each answer
ResponseFields(status) ==
  CASE status = 200 -> {"status", "success", "data", "statusCode", "ambiente", "periodo",
                        "elapsed"}
    [] status = 500 -> {"status", "success", "error", "elapsed"}
    [] OTHER -> {"status", "success", "error"}

\* The values of the text fields among `fields` that record r has
Texts(r, fields) == {r[f] : f \in fields \cap DOMAIN r}

NoSecretIn(r, fields, textFields) ==
  /\ DOMAIN r \subseteq fields
  /\ Texts(r, textFields) \cap Secrets = {}

\* An error message: its fixed prefix, and the remote's status and body or
\* the message of the socket error
NoSecretInError(e) ==
  /\ DOMAIN e \subseteq {"prefix", "status", "text"}
  /\ e.prefix \notin Secrets
  /\ (e.prefix = "Erro de conexao com eSocial: ") => e.text \notin Secrets
  /\ (e.prefix = "eSocial retornou status ") => IsPrefixOf(e.text, data)

-----------------------------------------------------------------------------
(* Properties of the scraping endpoint                                      *)

\* The scraping request reached the handler: rateLimit did not answer it.
IrrfHandled ==
  irrfPc # "idle" /\ ~(Len(irrfResponses) > 0 /\ irrfResponses[1].status = 429)

NoPfxOrPassword == Missing(irrfBody.certificatePfx) \/ Missing(irrfBody.password)
NotNonEmptyArray(x) == IF IsArray(x) THEN Len(x.arr) = 0 ELSE TRUE

\* The error of the earliest failing check of the scraping call, "ok" when
\* no check fails.
IrrfFirstFailing ==
  IF NoPfxOrPassword THEN MissingPfxOrPassword
  ELSE IF NotNonEmptyArray(irrfBody.cpfs) THEN MissingCpfs
  ELSE IF NotNonEmptyArray(irrfBody.periodos) THEN MissingPeriodos
  ELSE "ok"

\* C19: a handled scraping request that lacks certificatePfx or password, or
\* whose cpfs is not a non-empty array, or whose periodos is not a non-empty
\* array, is answered 400 with the message of the first of these checks that
\* fails, with no scraper constructed and no browser launched; every other
\* request gets a scraper, and 400 is answered to no other request.
C19_IrrfRejectsBeforeScraper ==
  IrrfHandled =>
    /\ (IrrfFirstFailing # "ok") =>
         /\ irrfPc = "responded"
         /\ irrfResponses = <<[status |-> 400, success |-> FALSE,
                               error |-> IrrfFirstFailing]>>
         /\ scrapers = 0
         /\ browser = "none"
    /\ (IrrfFirstFailing = "ok") =>
         /\ scrapers = 1
         /\ \A i \in 1..Len(irrfResponses) : irrfResponses[i].status # 400

C19_Witness ==
  /\ irrfPc = "responded"
  /\ irrfBody.certificatePfx = Str("PFX")
  /\ irrfBody.password = Str("secret")
  /\ irrfBody.cpfs = Str("11111111111")
  /\ irrfBody.periodos = Absent
  /\ irrfResponses[1].status = 400
  /\ irrfResponses[1].error = MissingCpfs
  /\ scrapers = 0

\* processMultiple has run its loop to the end and returned.
LoopReturned == onIrrfPage /\ irrfPc \in {"close", "closeAfterError", "responded"}

\* C20 (as claimed): when init, login and navigation succeeded,
\* processMultiple returns |cpfs| x |periodos| results, the k-th one tagged
\* with the k-th pair in period-major order, whatever consultations failed
\* or threw.
C20_OneResultPerPair ==
  LoopReturned =>
    LET cpfs == irrfBody.cpfs.arr
        periodos == irrfBody.periodos.arr
    IN /\ Len(results) = Len(cpfs) * Len(periodos)
       /\ \A k \in 1..Len(results) :
            /\ results[k].periodo = periodos[((k - 1) \div Len(cpfs)) + 1]
            /\ results[k].cpf = cpfs[((k - 1) % Len(cpfs)) + 1]

-----------------------------------------------------------------------------
(* Endpoint resolution and the operation                                    *)

ProductionHost == "webservices.esocial.gov.br"
RestrictedHost == "webservices.producaorestrita.esocial.gov.br"
QueryPath == "/servicos/empregador/consultarloteeventos/WsConsultarLoteEventos.svc"
DownloadPath == "/servicos/empregador/download/WsDownload.svc"

IsQuery == body.action = Str("consultar")

\* C21: every outbound request goes to the host of the environment the call
\* names (production to the production host, restricted production to the
\* restricted host, never crossed) and to the query path when action is
\* 'consultar', the download path otherwise; a handled call naming any other
\* environment, or none, issues no request and is answered 400.
C21_EndpointOfEnvironment ==
  /\ \A i \in 1..Len(outbound) :
       /\ body.ambiente \in {Str("producao"), Str("producao-restrita")}
       /\ (body.ambiente = Str("producao"))
            => outbound[i].options.hostname = ProductionHost
       /\ (body.ambiente = Str("producao-restrita"))
            => outbound[i].options.hostname = RestrictedHost
       /\ outbound[i].options.path = IF IsQuery THEN QueryPath ELSE DownloadPath
  /\ (Handled /\ BadEnvironment) =>
       /\ outbound = <<>>
       /\ pc = "responded"
       /\ responses[1].status = 400

C21_Witness ==
  /\ Len(outbound) = 1
  /\ body.ambiente = Str("producao-restrita")
  /\ IsQuery
  /\ outbound[1].options.hostname = RestrictedHost
  /\ outbound[1].options.path = QueryPath

QueryAction ==
  "http://www.esocial.gov.br/servicos/empregador/consulta/retornoProcessamento/v1_0_0/ServicoConsultarLoteEventos/ConsultarLoteEventos"
DownloadAction ==
  "http://www.esocial.gov.br/servicos/empregador/download/v1_0_0/ServicoDownload/Download"

\* C22: the SOAPAction header is one of two distinct constants, and in every
\* outbound request the header, the path and the envelope name the same
\* operation: the query one exactly when action is 'consultar', the download
\* one for every other action value, given or omitted.
C22_HeaderPathEnvelopeAgree ==
  /\ QueryAction # DownloadAction
  /\ \A i \in 1..Len(outbound) :
       /\ outbound[i].options.headers.SOAPAction \in {QueryAction, DownloadAction}
       /\ (outbound[i].options.headers.SOAPAction = QueryAction) <=> IsQuery
       /\ (outbound[i].options.path = QueryPath) <=> IsQuery
       /\ (outbound[i].body.operation = "ConsultarLoteEventos") <=> IsQuery
       /\ ~IsQuery =>
            /\ outbound[i].options.headers.SOAPAction = DownloadAction
            /\ outbound[i].options.path = DownloadPath
            /\ outbound[i].body.operation = "SolicitarDownloadEventos"

C22_Witness ==
  /\ Len(outbound) = 1
  /\ body.action = Str("enviar")
  /\ outbound[1].options.headers.SOAPAction = DownloadAction
  /\ outbound[1].body.operation = "SolicitarDownloadEventos"

-----------------------------------------------------------------------------
(* Termination of a call and the first settling event                       *)

\* C23 (as claimed): every call that passed the checks and awaits its
\* transport is eventually answered, with one response, whatever the remote
\* does and in whatever order the events come, a connection closed between
\* the response headers and 'end' included.
C23_EveryValidatedCallAnswered ==
  [](pc = "awaiting" => <>(pc = "responded" /\ Len(responses) = 1))

\* C24: once a call is answered its response and the state of its promise
\* never change while the call lasts: the first of end, error and timeout
\* fixed both, a call whose timeout fired is answered Timeout also after the
\* error that req.destroy() raises, and no call has a second response.
C24_FirstEventDecides ==
  [][(pc = "responded" /\ Len(outbound) > 0) =>
       /\ Len(responses) = 1
       /\ (pc' = "responded") => (responses' = responses /\ promise' = promise)
       /\ (promise.state = "rejected") => responses[1].error = promise.message
       /\ (reqState = "destroyed") => responses[1].error = Timeout]_vars

C24_Witness ==
  /\ pc = "responded"
  /\ reqState = "destroyed"
  /\ statusCode = 0
  /\ ~hangup
  /\ promise = Rejected(Timeout)
  /\ responses = <<TimeoutResponse(TIMEOUT_MS)>>

-----------------------------------------------------------------------------
(* The rate limiter                                                         *)

\* The requests of an address that rateLimit passed on in the RATE_WINDOW ms
\* that end at t.
AdmittedIn(ip, t) ==
  LET times == WithEntry(admitted, ip)[ip]
  IN Cardinality({i \in 1..Len(times) : times[i] > t - RATE_WINDOW /\ times[i] <= t})

\* The instants at which a window can be fullest: those of the admissions,
\* and the present.
WindowEnds ==
  {now} \cup UNION {{admitted[ip][i] : i \in 1..Len(admitted[ip])} : ip \in DOMAIN admitted}

\* C25: in every window of RATE_WINDOW ms the limiter has passed on at most
\* RATE_LIMIT requests of one address, and an address with fewer than
\* RATE_LIMIT requests in the window that ends now is not blocked, whatever
\* the other addresses sent.
C25_AtMostLimitPerWindow ==
  \A ip \in IPs :
    /\ \A t \in WindowEnds : AdmittedIn(ip, t) <= RATE_LIMIT
    /\ AdmittedIn(ip, now) < RATE_LIMIT => ~RateLimited(requestCounts, ip, now)
    /\ AdmittedIn(ip, now) = Len(RecentRequests(requestCounts, ip, now))

\* The window that ends at RATE_WINDOW is full for the first address with
\* requests of two instants, older ones have left it, and the second address
\* has just been admitted.
C25_Witness ==
  /\ now = RATE_WINDOW
  /\ AdmittedIn("10.0.0.1", now) = RATE_LIMIT
  /\ AdmittedIn("10.0.0.1", now - 1) = RATE_LIMIT
  /\ AdmittedIn("10.0.0.1", 0) = BatchSize
  /\ body = OtherBody
  /\ pc = "responded"
  /\ responses[1].status = 400
  /\ "10.0.0.2" \in DOMAIN admitted
  /\ admitted["10.0.0.2"] = <<now>>

\* The step is a request answered by rateLimit itself.
RejectedStep ==
  /\ callNo' = callNo + 1
  /\ \/ /\ pc' = "responded"
        /\ Len(responses') = 1
        /\ responses'[1].status = 429
     \/ /\ irrfPc' = "responded"
        /\ Len(irrfResponses') = 1
        /\ irrfResponses'[1].status = 429

\* Instants after the present, up to a window later
Later == {0, 1, RATE_WINDOW - 1, RATE_WINDOW}

\* C26: a request rateLimit rejects is answered 429 and nothing else happens:
\* the handler does not start (no start time, no log line, no outbound
\* request, no scraper), requestCounts is as it was but for an empty entry of
\* an address not seen before, the request is not among the admitted, and
\* no address is blocked for longer than it was.
C26_RejectedLeavesNoTrace ==
  [][RejectedStep =>
       /\ \E ip \in IPs : requestCounts' = WithEntry(requestCounts, ip)
       /\ admitted' = admitted
       /\ startTime' = 0 /\ log' = <<>> /\ outbound' = <<>>
       /\ reqState' = "none" /\ promise'.state = "none"
       /\ irrfStartTime' = 0 /\ scrapers' = 0 /\ browser' = "none" /\ results' = <<>>
       /\ Len(responses') + Len(irrfResponses') = 1
       /\ \A ip \in IPs, d \in Later :
            RateLimited(requestCounts', ip, now + d) <=> RateLimited(requestCounts, ip, now + d)
    ]_vars

\* A request to the scraping endpoint is rejected in the last millisecond of
\* a full window.
C26_Witness ==
  /\ irrfPc = "responded"
  /\ irrfResponses = <<[status |-> 429, success |-> FALSE, error |-> RateLimitExceeded]>>
  /\ scrapers = 0
  /\ now = RATE_WINDOW - 1
  /\ admitted = [ip \in {"10.0.0.1"} |-> [i \in 1..RATE_LIMIT |-> 0]]
  /\ callNo > RATE_LIMIT

\* After rejections in a full window the address is admitted again as soon
\* as the window of its admitted requests has passed.
C26_WitnessUnblocked ==
  /\ now = RATE_WINDOW
  /\ pc = "responded"
  /\ responses[1].status = 400
  /\ DOMAIN admitted = {"10.0.0.1"}
  /\ callNo > Len(admitted["10.0.0.1"])
  /\ AdmittedIn("10.0.0.1", 0) = RATE_LIMIT
  /\ AdmittedIn("10.0.0.1", now) = 1

-----------------------------------------------------------------------------
(* The scraper is closed before the answer; what processMultiple throws     *)

\* The scraping call passed the checks, a scraper was made for it, and it
\* has been answered.
ScrapedAndAnswered == irrfPc = "responded" /\ scrapers = 1

C27_WitnessSuccess ==
  /\ ScrapedAndAnswered
  /\ irrfResponses[1].status = 200
  /\ Len(results) > 0
  /\ browser = "closed"
  /\ tmpFiles = {}

\* C28: a scraping call that passed the checks is answered 500 exactly when
\* init or login threw, with the message of that error; once login is done
\* whatever throws is dropped, and the answer is 200 with success true and
\* the results gathered so far, none when navigateToIRRF threw.
C28_RethrowsOnlyBeforeLogin ==
  ScrapedAndAnswered =>
    LET r == irrfResponses[1]
    IN /\ r.status = 500 <=> ~loginDone
       /\ ~loginDone => /\ thrown # "none"
                        /\ r = IrrfFailure(thrown, irrfStartTime, now)
                        /\ results = <<>>
       /\ loginDone => /\ thrown = "none"
                       /\ r = IrrfSuccess(results, irrfStartTime, now)
                       /\ r.success
                       /\ r.data = results
       /\ (loginDone /\ ~onIrrfPage) => r.data = <<>>

\* navigateToIRRF threw after login and the call is answered with an empty
\* list.
C28_Witness ==
  /\ ScrapedAndAnswered
  /\ loginDone
  /\ ~onIrrfPage
  /\ faults = 1
  /\ irrfResponses[1].status = 200
  /\ irrfResponses[1].data = <<>>

\* login threw and the call is answered 500.
C28_WitnessBeforeLogin ==
  /\ ScrapedAndAnswered
  /\ browser = "closed"
  /\ ~loginDone
  /\ thrown = "Login nao completado"
  /\ irrfResponses[1].status = 500

-----------------------------------------------------------------------------
(* Scrapers of concurrent calls                                             *)

\* The scraper has run init and has not been closed.
Live(i) == phase[i] \in {"live", "waiting"}

\* No two live scrapers have a temporary path in common.
TempPathsDistinct ==
  \A i, j \in Instances :
    (i # j /\ Live(i) /\ Live(j)) => PathsOf(temp[i]) \cap PathsOf(temp[j]) = {}

\* The temporary paths of a live scraper exist.
TempFilesIntact == \A i \in Instances : Live(i) => PathsOf(temp[i]) \subseteq tmpFiles

\* A scraper reads its own download only.
DownloadsPrivate == \A i \in Instances : fetched[i] \in {0, i}

\* C29 (as claimed): scrapers of concurrent calls share no temporary
\* resource: the certificate file, NSS directory and profile directory of a
\* live scraper are those of no other live scraper, no close() of another
\* removes them, and what a scraper reads from os.tmpdir() is its own.
C29_InstancesShareNothing ==
  /\ TempPathsDistinct
  /\ TempFilesIntact
  /\ DownloadsPrivate

\* The same without the downloads: the three paths that init creates.
C29_InitPathsPrivate == TempPathsDistinct /\ TempFilesIntact

\* Scrapers whose init read different values of Date.now() keep their three
\* paths to themselves.
InitPathsPrivateWhenStampsDiffer ==
  (\A i, j \in Instances :
     (i # j /\ temp[i] # NoTemp /\ temp[j] # NoTemp) => temp[i] # temp[j])
  => (TempPathsDistinct /\ TempFilesIntact)

====
